---- MODULE Spec2Model ----
(***************************************************************************)
(* Weather Data API (src/main.py): a Flask application with one HTML page  *)
(* and three JSON endpoints over per-station text files.                   *)
(*                                                                         *)
(* Strings the handlers inspect character by character (station ids, date  *)
(* strings, year strings, file names) are sequences of one-character       *)
(* strings.  A station file is the sequence of its data rows (the 20       *)
(* header lines are skipped by read_csv); a row carries the "    DATE"     *)
(* cell (an integer written YYYYMMDD) and the "   TG" cell (tenths of a    *)
(* degree, -9999 when missing).  The Q_TG and SOUID columns pass through   *)
(* untouched and are left out.                                             *)
(***************************************************************************)
EXTENDS Integers, Sequences, FiniteSets, TLC

VARIABLES disk, stations, req, pc, path, df, opened, resp, fmt

vars == <<disk, stations, req, pc, path, df, opened, resp, fmt>>

(***************************************************************************)
(* Bounds of the model.                                                    *)
(***************************************************************************)
MaxRows == 2
MaxIdLen == 8
NumClients == 2

(***************************************************************************)
(* Program constants.                                                      *)
(***************************************************************************)
Sentinel == -9999
PadWidth == 6

(***************************************************************************)
(* Characters and decimal conversion.                                      *)
(***************************************************************************)
DigitChars == <<"0", "1", "2", "3", "4", "5", "6", "7", "8", "9">>

DigitSet == {DigitChars[i] : i \in 1..10}

DigitVal(c) == CHOOSE v \in 0..9 : DigitChars[v + 1] = c

IsDigits(s) == Len(s) > 0 /\ \A i \in 1..Len(s) : s[i] \in DigitSet

RECURSIVE NatOf(_)
NatOf(s) == IF s = <<>> THEN 0
            ELSE NatOf(SubSeq(s, 1, Len(s) - 1)) * 10 + DigitVal(s[Len(s)])

RECURSIVE NatToStr(_)
NatToStr(n) == IF n < 10 THEN <<DigitChars[n + 1]>>
               ELSE NatToStr(n \div 10) \o <<DigitChars[(n % 10) + 1]>>

\* str() of an int64 cell, as Series.astype(str) produces it.
IntToStr(n) == IF n < 0 THEN <<"-">> \o NatToStr(-n) ELSE NatToStr(n)

RECURSIVE Zeros(_)
Zeros(k) == IF k <= 0 THEN <<>> ELSE <<"0">> \o Zeros(k - 1)

\* Python int(station): an optional sign, then one or more decimal digits.
\* Anything else raises ValueError (ok = FALSE).
ParseInt(s) ==
    LET signed == s # <<>> /\ s[1] \in {"-", "+"}
        body == IF signed THEN Tail(s) ELSE s
    IN IF IsDigits(body)
       THEN [ok |-> TRUE,
             val |-> IF signed /\ s[1] = "-" THEN -NatOf(body) ELSE NatOf(body)]
       ELSE [ok |-> FALSE, val |-> 0]

\* Python format(n, "06d"): sign-aware zero padding to a minimum width of 6;
\* longer numbers are never truncated.
Format06dTruncating(n) ==
    LET d == NatToStr(IF n < 0 THEN -n ELSE n)
    IN IF Len(d) > PadWidth THEN SubSeq(d, Len(d) - PadWidth + 1, Len(d))
       ELSE Zeros(PadWidth - Len(d)) \o d

Format06d(n) ==
    LET d == NatToStr(IF n < 0 THEN -n ELSE n)
    IN IF n < 0 THEN <<"-">> \o Zeros(PadWidth - 1 - Len(d)) \o d
       ELSE Zeros(PadWidth - Len(d)) \o d

\* f"TG_STAID{int(station):06d}.txt" (the DATA_DIR prefix is fixed).
StationFileName(n) == <<"TG_STAID">> \o Format06d(n) \o <<".txt">>

\* The zero-padded id embedded in a station file name.
EmbeddedId(name) == SubSeq(name, 2, Len(name) - 1)

(***************************************************************************)
(* Dates.  pandas turns a string into a Timestamp with its ISO-8601 parser:*)
(* a four-digit year, then optionally -M[M] and -D[D] (the second digit is *)
(* optional after a separator), or eight digits YYYYMMDD; absent fields    *)
(* default to 1.  A string it cannot parse gives no Timestamp (ok = FALSE).*)
(* The request dates of the model are strings on which pandas' fallback    *)
(* parser agrees with this.                                                *)
(***************************************************************************)
RECURSIVE Split(_, _)
Split(s, sep) ==
    IF s = <<>> THEN << <<>> >>
    ELSE LET rest == Split(Tail(s), sep)
         IN IF Head(s) = sep THEN << <<>> >> \o rest
            ELSE << <<Head(s)>> \o Head(rest) >> \o Tail(rest)

IsLeap(y) == (y % 4 = 0 /\ y % 100 # 0) \/ y % 400 = 0

DaysInMonth(y, m) ==
    IF m = 2 THEN (IF IsLeap(y) THEN 29 ELSE 28)
    ELSE IF m \in {4, 6, 9, 11} THEN 30 ELSE 31

NaT == [ok |-> FALSE, year |-> 0, month |-> 0, day |-> 0]

MakeDate(y, m, d) ==
    IF m \in 1..12 /\ d >= 1 /\ d <= DaysInMonth(y, m)
    THEN [ok |-> TRUE, year |-> y, month |-> m, day |-> d]
    ELSE NaT

ParseDate(s) ==
    LET f == Split(s, "-")
        shortField(x) == IsDigits(x) /\ Len(x) <= 2
    IN IF ~ IsDigits(f[1]) THEN NaT
       ELSE IF Len(f) = 1 /\ Len(f[1]) = 8
            THEN MakeDate(NatOf(SubSeq(f[1], 1, 4)), NatOf(SubSeq(f[1], 5, 6)),
                          NatOf(SubSeq(f[1], 7, 8)))
       ELSE IF Len(f[1]) # 4 THEN NaT
       ELSE IF Len(f) = 1 THEN MakeDate(NatOf(f[1]), 1, 1)
       ELSE IF Len(f) = 2 /\ shortField(f[2])
            THEN MakeDate(NatOf(f[1]), NatOf(f[2]), 1)
       ELSE IF Len(f) = 3 /\ shortField(f[2]) /\ shortField(f[3])
            THEN MakeDate(NatOf(f[1]), NatOf(f[2]), NatOf(f[3]))
       ELSE NaT

\* str.startswith
StartsWith(s, prefix) ==
    Len(prefix) <= Len(s) /\ SubSeq(s, 1, Len(prefix)) = prefix

(***************************************************************************)
(* Numbers as they appear in a JSON response: a sign, an integer part and  *)
(* one decimal digit (every number the handlers emit is a raw integer or a *)
(* raw integer divided by ten).                                            *)
(***************************************************************************)
Abs(v) == IF v < 0 THEN -v ELSE v

\* An int64 cell emitted unchanged.
JsonInt(v) == [neg |-> v < 0, int |-> Abs(v), frac |-> 0]

\* Python's floor division, the operator one character away from "/".
FloorDiv10(v) == [neg |-> v < 0, int |-> Abs(v \div 10), frac |-> 0]

\* target.squeeze() / 10: true division of an int64 by ten.
TrueDiv10(v) == [neg |-> v < 0, int |-> Abs(v) \div 10, frac |-> Abs(v) % 10]

None == [null |-> TRUE]

(***************************************************************************)
(* pandas.read_csv(path, skiprows=20[, parse_dates=["    DATE"]]) applied  *)
(* to the rows of a station file.                                          *)
(***************************************************************************)
RECURSIVE MapRows(_, _)
MapRows(rows, parseDates) ==
    IF rows = <<>> THEN <<>>
    ELSE LET r == Head(rows)
         IN << [DATE |-> IF parseDates THEN ParseDate(IntToStr(r.DATE))
                         ELSE r.DATE,
                TG |-> r.TG] >> \o MapRows(Tail(rows), parseDates)

read_csv(rows, parseDates) == MapRows(rows, parseDates)

\* df.loc[df["   TG"] != -9999] (df.loc[mask] keeps the rows the mask
\* selects, in their original order), and the mistake of not cleaning at all.
DropSentinelNoop(rows) == rows

DropSentinel(rows) == LET Keep(r) == r.TG # Sentinel IN SelectSeq(rows, Keep)

(***************************************************************************)
(* Responses.  Flask turns a returned dict or list into a 200 JSON         *)
(* response and an exception that escapes the view into a 500 response;    *)
(* main.py registers no error handler and raises no HTTP exception.        *)
(***************************************************************************)
Ok(body) == [status |-> 200, body |-> body]

InternalServerError(exc) == [status |-> 500, body |-> [error |-> exc]]

NoResp == [status |-> 0, body |-> [none |-> TRUE]]

NoReq == [endpoint |-> "none", station |-> <<>>, arg |-> <<>>]

\* df.to_dict(orient="records"): one record per row, in row order.
RECURSIVE to_dict(_)
to_dict(rows) ==
    IF rows = <<>> THEN <<>>
    ELSE << [DATE |-> Head(rows).DATE, TG |-> JsonInt(Head(rows).TG)] >>
         \o to_dict(Tail(rows))

\* df["    DATE"] == date: the string is parsed to a Timestamp; a string that
\* cannot be parsed compares unequal to every row.
DateEq(cell, date) == ParseDate(date).ok /\ cell = ParseDate(date)

\* df.loc[df["    DATE"] == date]["   TG"]
RECURSIVE TGColumn(_)
TGColumn(rows) ==
    IF rows = <<>> THEN <<>> ELSE <<Head(rows).TG>> \o TGColumn(Tail(rows))

Target(rows, date) ==
    LET Match(r) == DateEq(r.DATE, date) IN TGColumn(SelectSeq(rows, Match))

\* A lookup that converts the requested date itself (pd.Timestamp(date)) and
\* lets the ValueError of an unparseable string escape.
DataResultStrict(station, date, rows) ==
    LET target == Target(DropSentinel(rows), date)
    IN IF ~ ParseDate(date).ok THEN InternalServerError("ValueError")
       ELSE IF target = <<>>
       THEN Ok([station |-> station, date |-> date, temperature |-> None])
       ELSE IF Len(target) = 1
       THEN Ok([station |-> station, date |-> date,
                temperature |-> TrueDiv10(target[1])])
       ELSE InternalServerError("TypeError")

\* Lines 93-114 of data(): clean, select, squeeze, divide, return the dict.
\* With more than one matching row squeeze() leaves a Series, the dict holds
\* a Series and Flask's JSON encoder raises TypeError.
DataResult(station, date, rows) ==
    LET target == Target(DropSentinel(rows), date)
    IN IF target = <<>>
       THEN Ok([station |-> station, date |-> date, temperature |-> None])
       ELSE IF Len(target) = 1
       THEN Ok([station |-> station, date |-> date,
                temperature |-> TrueDiv10(target[1])])
       ELSE InternalServerError("TypeError")

\* Lines 134-139 of all_data().
AllDataResult(rows) == Ok([records |-> to_dict(DropSentinel(rows))])

\* Lines 164-174 of yearly(): DATE to text, prefix mask, no cleaning.
RECURSIVE astype_str(_)
astype_str(rows) ==
    IF rows = <<>> THEN <<>>
    ELSE << [DATE |-> IntToStr(Head(rows).DATE), TG |-> Head(rows).TG] >>
         \o astype_str(Tail(rows))

\* The cleaning the comment of lines 170-172 considers and leaves out.
YearlyResultCleaned(year, rows) ==
    LET Mask(r) == StartsWith(r.DATE, year)
    IN Ok([records |-> to_dict(SelectSeq(astype_str(DropSentinel(rows)), Mask))])

YearlyResult(year, rows) ==
    LET Mask(r) == StartsWith(r.DATE, year)
    IN Ok([records |-> to_dict(SelectSeq(astype_str(rows), Mask))])

(***************************************************************************)
(* The files under DATA_DIR and the requests of the model.                 *)
(***************************************************************************)
Clients == 1..NumClients

CatalogName == <<"stations.txt">>

Catalog == << [STAID |-> 1], [STAID |-> 10] >>

FileDates == {19981015, 19981001, 19900101}

Temps == {125, Sentinel, -5}

RowKinds == [DATE : FileDates, TG : Temps]

ConcRowKinds == {[DATE |-> 19981015, TG |-> 125], [DATE |-> 19900101, TG |-> Sentinel]}

SeqsUpTo(S, n) == UNION {[1..k -> S] : k \in 0..n}

Station1Rows == << [DATE |-> 20000101, TG |-> 31], [DATE |-> 20000102, TG |-> Sentinel] >>

DiskWith(rows) ==
    (CatalogName :> Catalog) @@ (StationFileName(1) :> Station1Rows)
    @@ (StationFileName(10) :> rows)

\* Path segments of the requests: station ids, dates, years.
S10 == <<"1", "0">>
S010 == <<"0", "1", "0">>
S1 == <<"1">>
S99999 == <<"9", "9", "9", "9", "9">>
SABC == <<"a", "b", "c">>
SNEG5 == <<"-", "5">>
D1 == <<"1", "9", "9", "8", "-", "1", "0", "-", "1", "5">>
D2 == <<"1", "9", "9", "8", "-", "1", "0", "-", "1">>
D3 == <<"1", "9", "9", "0", "-", "0", "1", "-", "0", "1">>
D4 == <<"1", "9", "9", "8", "1", "0", "1", "5">>
D5 == <<"1", "9", "9", "8", "-", "1", "0">>
D6 == <<"i", "n", "v", "a", "l", "i", "d", "-", "d", "a", "t", "e">>
D7 == <<"2", "0", "0", "0", "-", "0", "1", "-", "0", "1">>
Y1 == <<"1", "9", "9">>
Y2 == <<"1", "9", "9", "8">>
Y3 == <<"2", "0", "0", "0">>

StationArgs == {S10, S010, S1, S99999, SABC, SNEG5}

DateArgs == {D1, D2, D3, D4, D5, D6, D7}

YearArgs == {Y1, Y2, Y3}

Requests ==
    {[endpoint |-> "home", station |-> <<>>, arg |-> <<>>]}
    \cup [endpoint : {"data"}, station : StationArgs, arg : DateArgs]
    \cup [endpoint : {"all_data"}, station : StationArgs, arg : {<<>>}]
    \cup [endpoint : {"yearly"}, station : StationArgs, arg : YearArgs]

ConcRequests ==
    {[endpoint |-> "home", station |-> <<>>, arg |-> <<>>],
     [endpoint |-> "data", station |-> S10, arg |-> D1],
     [endpoint |-> "yearly", station |-> S10, arg |-> Y1],
     [endpoint |-> "all_data", station |-> S1, arg |-> <<>>],
     [endpoint |-> "all_data", station |-> S99999, arg |-> <<>>]}

(***************************************************************************)
(* State.  disk: the files under DATA_DIR, never written.  stations: the   *)
(* module-level DataFrame read once at import (line 48).  Per request in   *)
(* flight (one per client): req, the routed request; pc, where its handler *)
(* stands; path and df, the handler's locals; opened, whether it has       *)
(* called read_csv on its path; resp, the response sent.                   *)
(***************************************************************************)
IdleFmt == [stage |-> "off", s |-> <<>>, id |-> 0, name |-> <<>>, id2 |-> 0, name2 |-> <<>>]

InitWith(rowKinds) ==
    /\ \E rows \in SeqsUpTo(rowKinds, MaxRows) : disk = DiskWith(rows)
    /\ stations = disk[CatalogName]
    /\ req = [c \in Clients |-> NoReq]
    /\ pc = [c \in Clients |-> "idle"]
    /\ path = [c \in Clients |-> <<>>]
    /\ df = [c \in Clients |-> <<>>]
    /\ opened = [c \in Clients |-> FALSE]
    /\ resp = [c \in Clients |-> NoResp]
    /\ fmt = IdleFmt

Init == InitWith(RowKinds)

InitConc == InitWith(ConcRowKinds)

\* The router hands a request to its view function.
Route(c, r) ==
    /\ pc[c] = "idle"
    /\ req' = [req EXCEPT ![c] = r]
    /\ pc' = [pc EXCEPT ![c] = "routed"]
    /\ UNCHANGED <<disk, stations, path, df, opened, resp, fmt>>

home(c) ==
    /\ pc[c] = "routed"
    /\ req[c].endpoint = "home"
    /\ resp' = [resp EXCEPT ![c] = Ok([html |-> stations])]
    /\ pc' = [pc EXCEPT ![c] = "done"]
    /\ UNCHANGED <<disk, stations, req, path, df, opened, fmt>>

\* A module-level path, shared by every request in flight.
LocateShared(c) ==
    /\ pc[c] = "routed"
    /\ req[c].endpoint # "home"
    /\ LET n == ParseInt(req[c].station)
       IN IF n.ok
          THEN /\ path' = [k \in Clients |-> StationFileName(n.val)]
               /\ pc' = [pc EXCEPT ![c] = "located"]
               /\ UNCHANGED resp
          ELSE /\ resp' = [resp EXCEPT ![c] = InternalServerError("ValueError")]
               /\ pc' = [pc EXCEPT ![c] = "done"]
               /\ UNCHANGED path
    /\ UNCHANGED <<disk, stations, req, df, opened, fmt>>

\* path = os.path.join(DATA_DIR, f"TG_STAID{int(station):06d}.txt")
Locate(c) ==
    /\ pc[c] = "routed"
    /\ req[c].endpoint # "home"
    /\ LET n == ParseInt(req[c].station)
       IN IF n.ok
          THEN /\ path' = [path EXCEPT ![c] = StationFileName(n.val)]
               /\ pc' = [pc EXCEPT ![c] = "located"]
               /\ UNCHANGED resp
          ELSE /\ resp' = [resp EXCEPT ![c] = InternalServerError("ValueError")]
               /\ pc' = [pc EXCEPT ![c] = "done"]
               /\ UNCHANGED path
    /\ UNCHANGED <<disk, stations, req, df, opened, fmt>>

\* df = pd.read_csv(path, skiprows=20[, parse_dates=["    DATE"]])
ReadCsv(c) ==
    /\ pc[c] = "located"
    /\ opened' = [opened EXCEPT ![c] = TRUE]
    /\ IF path[c] \in DOMAIN disk
       THEN /\ df' = [df EXCEPT ![c] =
                        read_csv(disk[path[c]], req[c].endpoint # "yearly")]
            /\ pc' = [pc EXCEPT ![c] = "loaded"]
            /\ UNCHANGED resp
       ELSE /\ resp' = [resp EXCEPT ![c] = InternalServerError("FileNotFoundError")]
            /\ pc' = [pc EXCEPT ![c] = "done"]
            /\ UNCHANGED df
    /\ UNCHANGED <<disk, stations, req, path, fmt>>

Respond(c, r) ==
    /\ resp' = [resp EXCEPT ![c] = r]
    /\ pc' = [pc EXCEPT ![c] = "done"]
    /\ UNCHANGED <<disk, stations, req, path, df, opened, fmt>>

data(c) ==
    /\ pc[c] = "loaded"
    /\ req[c].endpoint = "data"
    /\ Respond(c, DataResult(req[c].station, req[c].arg, df[c]))

all_data(c) ==
    /\ pc[c] = "loaded"
    /\ req[c].endpoint = "all_data"
    /\ Respond(c, AllDataResult(df[c]))

yearly(c) ==
    /\ pc[c] = "loaded"
    /\ req[c].endpoint = "yearly"
    /\ Respond(c, YearlyResult(req[c].arg, df[c]))

\* The response has been sent; the handler's locals are gone.
Return(c) ==
    /\ pc[c] = "done"
    /\ pc' = [pc EXCEPT ![c] = "idle"]
    /\ req' = [req EXCEPT ![c] = NoReq]
    /\ path' = [path EXCEPT ![c] = <<>>]
    /\ df' = [df EXCEPT ![c] = <<>>]
    /\ opened' = [opened EXCEPT ![c] = FALSE]
    /\ resp' = [resp EXCEPT ![c] = NoResp]
    /\ UNCHANGED <<disk, stations, fmt>>

Handle(c) ==
    \/ home(c)
    \/ Locate(c)
    \/ ReadCsv(c)
    \/ data(c)
    \/ all_data(c)
    \/ yearly(c)
    \/ Return(c)

\* One request at a time.
Next == (\E r \in Requests : Route(1, r)) \/ Handle(1)

Spec == Init /\ [][Next]_vars

\* Requests served concurrently (Flask's threaded server).
NextConc == \E c \in Clients : (\E r \in ConcRequests : Route(c, r)) \/ Handle(c)

SpecConc == InitConc /\ [][NextConc]_vars

(***************************************************************************)
(* File-name formatting on its own: an id string is turned into a file     *)
(* name as line 83 does (FmtDerive), the zero-padded id inside the name is *)
(* read back with int() (FmtReparse) and turned into a name again          *)
(* (FmtRederive).                                                          *)
(***************************************************************************)
IdAlphabet == {"0", "1", "9", "-"}

IdStrings == UNION {[1..k -> IdAlphabet] : k \in 1..MaxIdLen}

InitFmt ==
    /\ disk = DiskWith(<<>>)
    /\ stations = disk[CatalogName]
    /\ req = [c \in Clients |-> NoReq]
    /\ pc = [c \in Clients |-> "idle"]
    /\ path = [c \in Clients |-> <<>>]
    /\ df = [c \in Clients |-> <<>>]
    /\ opened = [c \in Clients |-> FALSE]
    /\ resp = [c \in Clients |-> NoResp]
    /\ \E s \in IdStrings : fmt = [IdleFmt EXCEPT !.stage = "input", !.s = s]

FmtDerive ==
    /\ fmt.stage = "input"
    /\ LET n == ParseInt(fmt.s)
       IN fmt' = IF n.ok
                 THEN [fmt EXCEPT !.stage = "named", !.id = n.val,
                                  !.name = StationFileName(n.val)]
                 ELSE [fmt EXCEPT !.stage = "rejected"]
    /\ UNCHANGED <<disk, stations, req, pc, path, df, opened, resp>>

FmtReparse ==
    /\ fmt.stage = "named"
    /\ LET n == ParseInt(EmbeddedId(fmt.name))
       IN fmt' = IF n.ok
                 THEN [fmt EXCEPT !.stage = "reparsed", !.id2 = n.val]
                 ELSE [fmt EXCEPT !.stage = "unparsed"]
    /\ UNCHANGED <<disk, stations, req, pc, path, df, opened, resp>>

FmtRederive ==
    /\ fmt.stage = "reparsed"
    /\ fmt' = [fmt EXCEPT !.stage = "done", !.name2 = StationFileName(fmt.id2)]
    /\ UNCHANGED <<disk, stations, req, pc, path, df, opened, resp>>

NextFmt == FmtDerive \/ FmtReparse \/ FmtRederive

SpecFmt == InitFmt /\ [][NextFmt]_vars

(***************************************************************************)
(* Vocabulary of the properties.                                           *)
(***************************************************************************)
\* Ten times the number a JSON value denotes (12.5 -> 125, 125 -> 1250).
TimesTen(num) == (IF num.neg THEN -1 ELSE 1) * (num.int * 10 + num.frac)

DataEndpoints == {"data", "all_data", "yearly"}

\* The station segment is a non-negative integer.
WellFormed(r) == ParseInt(r.station).ok /\ ParseInt(r.station).val >= 0

FileOf(r) == StationFileName(ParseInt(r.station).val)

\* The station segment is well formed and its file is on disk.
StationExists(r) == WellFormed(r) /\ FileOf(r) \in DOMAIN disk

\* The YYYYMMDD integer of a parsed calendar date.
AsYMD(t) == t.year * 10000 + t.month * 100 + t.day

\* The positions of the non-sentinel rows of r's file dated as r asks.
Matches(r) ==
    LET rows == disk[FileOf(r)]
        want == ParseDate(r.arg)
    IN {i \in 1..Len(rows) :
          rows[i].TG # Sentinel /\ want.ok /\ rows[i].DATE = AsYMD(want)}

Least(S) == CHOOSE i \in S : \A j \in S : i <= j

Finished(c, endpoint) == pc[c] = "done" /\ req[c].endpoint = endpoint

(***************************************************************************)
(* Properties.                                                             *)
(***************************************************************************)

\* C1: the point lookup never reports the temperature of a row whose raw
\* temperature is -9999 (what it reports is the tenth of a non-sentinel row
\* of the file), and no record of the full station dump carries -9999.
C1_NoSentinelInCleanedOutput ==
    \A c \in Clients :
        /\ (Finished(c, "data") /\ resp[c].status = 200
              /\ resp[c].body.temperature # None)
           => /\ TimesTen(resp[c].body.temperature) # Sentinel
              /\ \E i \in 1..Len(disk[FileOf(req[c])]) :
                    /\ disk[FileOf(req[c])][i].TG # Sentinel
                    /\ disk[FileOf(req[c])][i].TG
                         = TimesTen(resp[c].body.temperature)
        /\ (Finished(c, "all_data") /\ resp[c].status = 200)
           => \A i \in 1..Len(resp[c].body.records) :
                 TimesTen(resp[c].body.records[i].TG) # Sentinel * 10

\* C1 witness: a point lookup reported a temperature for a date on which the
\* file also holds a sentinel row.
C1_Witness ==
    \E c \in Clients :
        /\ Finished(c, "data") /\ resp[c].status = 200
        /\ resp[c].body.temperature # None
        /\ \E i \in 1..Len(disk[FileOf(req[c])]) :
              /\ disk[FileOf(req[c])][i].TG = Sentinel
              /\ disk[FileOf(req[c])][i].DATE = AsYMD(ParseDate(req[c].arg))

\* C2: for an existing station the point lookup succeeds, and it returns a
\* non-null temperature exactly when the file has a non-sentinel row whose
\* year, month and day equal the requested date (null when none does).
C2_ExactDateLookup ==
    \A c \in Clients :
        (Finished(c, "data") /\ StationExists(req[c]))
        => /\ resp[c].status = 200
           /\ (resp[c].body.temperature # None) <=> (Matches(req[c]) # {})

\* C3 as stated: in both cleaned outputs the temperature emitted for a row
\* with raw value v is v / 10.
C3_CleanedOutputIsTenthOfRaw ==
    \A c \in Clients :
        /\ (Finished(c, "data") /\ resp[c].status = 200
              /\ resp[c].body.temperature # None)
           => \E i \in Matches(req[c]) :
                 TimesTen(resp[c].body.temperature) = disk[FileOf(req[c])][i].TG
        /\ (Finished(c, "all_data") /\ resp[c].status = 200)
           => LET kept == SelectSeq(disk[FileOf(req[c])],
                                    LAMBDA r : r.TG # Sentinel)
              IN /\ Len(resp[c].body.records) = Len(kept)
                 /\ \A i \in 1..Len(kept) :
                       TimesTen(resp[c].body.records[i].TG) = kept[i].TG

\* C3 amended: the point lookup reports v / 10 for the matching row's raw
\* value v; the records of the full station dump carry the raw value v
\* itself, in tenths, for every non-sentinel row in file order.
C3_PointIsTenthDumpIsRaw ==
    \A c \in Clients :
        /\ (Finished(c, "data") /\ resp[c].status = 200
              /\ resp[c].body.temperature # None)
           => \E i \in Matches(req[c]) :
                 TimesTen(resp[c].body.temperature) = disk[FileOf(req[c])][i].TG
        /\ (Finished(c, "all_data") /\ resp[c].status = 200)
           => LET kept == SelectSeq(disk[FileOf(req[c])],
                                    LAMBDA r : r.TG # Sentinel)
              IN /\ Len(resp[c].body.records) = Len(kept)
                 /\ \A i \in 1..Len(kept) :
                       TimesTen(resp[c].body.records[i].TG) = kept[i].TG * 10

\* C3 witness: a point lookup reported a fractional temperature below zero
\* (raw -5 reported as -0.5).
C3_Witness ==
    \E c \in Clients :
        /\ Finished(c, "data") /\ resp[c].status = 200
        /\ resp[c].body.temperature # None
        /\ resp[c].body.temperature.neg
        /\ resp[c].body.temperature.frac # 0

\* C4: the annual dump returns exactly the rows whose textual date begins
\* with the requested year string, in file order, sentinel rows included.
C4_AnnualIsYearPrefix ==
    \A c \in Clients :
        (Finished(c, "yearly") /\ StationExists(req[c]))
        => LET rows == disk[FileOf(req[c])]
               hit == SelectSeq(rows,
                        LAMBDA r : StartsWith(IntToStr(r.DATE), req[c].arg))
           IN /\ resp[c].status = 200
              /\ Len(resp[c].body.records) = Len(hit)
              /\ \A i \in 1..Len(hit) :
                    /\ resp[c].body.records[i].DATE = IntToStr(hit[i].DATE)
                    /\ TimesTen(resp[c].body.records[i].TG) = hit[i].TG * 10

\* C4 witness: a request for year 199 returned a 1998 row and a 1990 row,
\* one of them a sentinel row.
C4_Witness ==
    \E c \in Clients :
        /\ Finished(c, "yearly") /\ resp[c].status = 200
        /\ req[c].arg = Y1
        /\ Len(resp[c].body.records) = 2
        /\ resp[c].body.records[1].DATE = IntToStr(19981015)
        /\ resp[c].body.records[2].DATE = IntToStr(19900101)
        /\ TimesTen(resp[c].body.records[1].TG) = Sentinel * 10

\* C5: a well-formed station id with no station file ends in a client error
\* (4xx), on each of the three data endpoints.
C5_StationNotFoundIsClientError ==
    \A c \in Clients :
        (pc[c] = "done" /\ req[c].endpoint \in DataEndpoints
           /\ WellFormed(req[c]) /\ ~ StationExists(req[c]))
        => resp[c].status \in 400..499

\* C6: a station segment that is not a non-negative integer ends in a client
\* error (4xx) before any station file is opened.
C6_InvalidStationIdIsClientError ==
    \A c \in Clients :
        (pc[c] = "done" /\ req[c].endpoint \in DataEndpoints
           /\ ~ WellFormed(req[c]))
        => resp[c].status \in 400..499 /\ ~ opened[c]

Alone(r) ==
    IF r.endpoint = "home" THEN Ok([html |-> disk[CatalogName]])
    ELSE IF ~ ParseInt(r.station).ok THEN InternalServerError("ValueError")
    ELSE IF FileOf(r) \notin DOMAIN disk
         THEN InternalServerError("FileNotFoundError")
    ELSE IF r.endpoint = "data"
         THEN DataResult(r.station, r.arg, read_csv(disk[FileOf(r)], TRUE))
    ELSE IF r.endpoint = "all_data"
         THEN AllDataResult(read_csv(disk[FileOf(r)], TRUE))
    ELSE YearlyResult(r.arg, read_csv(disk[FileOf(r)], FALSE))

\* C8: under any interleaving of concurrent requests every response equals
\* the response the request gets when run alone on the same files, and no
\* step changes the station catalog or the files.
C8_RequestsIndependent ==
    [][/\ stations' = stations
       /\ disk' = disk
       /\ \A c \in Clients : pc'[c] = "done" => resp'[c] = Alone(req'[c])]_vars

\* C8 witness: two requests for the same station are in flight, one of them
\* answered while the other holds its parsed file.
C8_Witness ==
    \E c, k \in Clients :
        /\ c # k
        /\ pc[c] = "done" /\ resp[c].status = 200 /\ req[c].endpoint = "data"
        /\ pc[k] = "loaded" /\ req[k].endpoint = "yearly"
        /\ path[c] = path[k]

\* C9: for every id string that parses as a non-negative integer, the
\* zero-padded id in the derived file name reads back as the same number and
\* gives the same file name again.
C9_FormatIdempotent ==
    (fmt.stage \in {"named", "reparsed", "done", "unparsed"} /\ fmt.id >= 0)
    => /\ fmt.stage # "unparsed"
       /\ fmt.stage \in {"reparsed", "done"} => fmt.id2 = fmt.id
       /\ fmt.stage = "done" => fmt.name2 = fmt.name

\* C9 witness: the round trip finished for an id given with a leading zero
\* and for which the padded form is longer than six digits.
C9_Witness ==
    /\ fmt.stage = "done"
    /\ fmt.s[1] = "0"
    /\ fmt.id >= 1000000

\* C10: with more than one non-sentinel row on the requested date the point
\* lookup succeeds and reports the tenth of the first such row.
C10_FirstMatchOnDuplicates ==
    \A c \in Clients :
        (Finished(c, "data") /\ StationExists(req[c])
           /\ Cardinality(Matches(req[c])) > 1)
        => /\ resp[c].status = 200
           /\ resp[c].body.temperature # None
           /\ TimesTen(resp[c].body.temperature)
                = disk[FileOf(req[c])][Least(Matches(req[c]))].TG

====
